---- MODULE Spec2Model ----
(***************************************************************************)
(* Model of the Internly reporting page (src/src/pages/Reports.tsx): the   *)
(* fetchReportStats handler with its weekly and monthly bucketing, over a  *)
(* discrete clock; of the entry forms: the Entries page with its edit      *)
(* dialog and the NewEntryForm of the add dialog; of the list of the       *)
(* Entries page with its status changes and deletes; and of the routes of  *)
(* App behind ProtectedRoute with the fetches of the four pages.           *)
(*                                                                         *)
(* Requests.  A handler that awaits the backend is two steps: the step up  *)
(* to the await, in which the backend applies or rejects the write, and    *)
(* the step after it, which runs on the values the handler closed over.    *)
(*                                                                         *)
(* Time.  A JavaScript Date is a count of clock ticks since an epoch; the  *)
(* model keeps that representation with TicksPerDay ticks in a day instead *)
(* of 86400000.  Tick 0 is 2024-01-01T00:00Z, a Monday.  A stored date     *)
(* string "YYYY-MM-DD" is its day number counted from 2024-01-01; new Date *)
(* of it is UTC midnight of that day.  All date-fns functions work on the  *)
(* local wall clock, which is the instant shifted by tz ticks.             *)
(***************************************************************************)
EXTENDS Integers, Sequences, FiniteSets, TLC

\* ---------------------------------------------------------------- bounds
TicksPerDay == 2
MaxReports == 2
MaxTicks == 1
MaxWrites == 2
MaxRequests == 2
MaxVisits == 3
MaxLen == 3

\* ------------------------------------------------------- value encodings
\* getTime() of an Invalid Date
NaN == -1
\* a stored date string that new Date() cannot parse ("bad-date")
BadDate == -1
\* SQL NULL in a date column / in the time_spent column
NullDate == -2
NullTime == -999
\* SQL NULL in a text column; a text is the sequence of its characters
NullText == <<"null">>

VARIABLES
  tz,              \* offset of the client's wall clock from UTC, in ticks
  clock,           \* the instant new Date() returns now
  ticks,           \* how often the clock has advanced
  profile,         \* row of table profiles: [start_date, end_date]
  reports,         \* rows of table reports of this user
  pc,              \* position of fetchReportStats / of the Entries page
  startDate, endDate, currentDate, analysisEndDate,   \* its locals
  today, fetched,  \* locals of the second half (line 154, line 105)
  loading,         \* useState loading of the mounted page
  stats,           \* useState stats
  toast,           \* last toast shown
  entries,         \* Entries: useState entries, dates in display format
  newEntry,        \* Entries: useState newEntry, the fields of the edit dialog
  editingEntry,    \* Entries: id of useState editingEntry, 0 for null
  open,            \* Entries: useState open of the entry dialog
  dialogOpen,      \* MobileNavbar: useState dialogOpen of the add dialog
  formNewEntry,    \* NewEntryForm: useState newEntry
  dateTouched,     \* history: the date input changed since startEditing
  loadedEntry,     \* history: id of the entry startEditing loaded last, 0 for none
  writes,          \* history: number of inserts and updates issued
  dashboardData,   \* Dashboard: useState dashboardData
  dashboardLoading, \* Dashboard: useState loading
  entryToDelete,   \* Entries: useState entryToDelete, 0 for null
  deleteDialogOpen, \* Entries: useState deleteDialogOpen
  inflight,        \* Entries: status changes and deletes awaiting their response
  saving,          \* inserts and updates of the forms awaiting their response
  formLoading,     \* NewEntryForm: useState loading
  user,            \* useAuth().user: TRUE for a signed-in user, FALSE for null
  authLoading,     \* useAuth().loading
  path,            \* location of the router
  visits,          \* history: number of navigations and changes of the session
  settings,        \* Settings: useState settings, [startDate, endDate]
  settingsLoading  \* Settings: useState loading

\* the state of the Entries page, of the add dialog and of their history
\* the state of the list of the Entries page
listVars == <<entryToDelete, deleteDialogOpen, inflight>>

\* the session, the router and the Settings page
sessionVars == <<user, authLoading, path, visits, settings, settingsLoading>>

entriesVars == <<entries, newEntry, editingEntry, open, dialogOpen, formNewEntry,
                 dateTouched, loadedEntry, writes, listVars, saving, formLoading>>

vars == <<tz, clock, ticks, profile, reports, pc, startDate, endDate,
          currentDate, analysisEndDate, today, fetched, loading, stats, toast,
          entries, newEntry, editingEntry, open, dialogOpen, formNewEntry,
          dateTouched, loadedEntry, writes, dashboardData, dashboardLoading,
          entryToDelete, deleteDialogOpen, inflight, saving, formLoading,
          user, authLoading, path, visits, settings, settingsLoading>>

\* the state of the Dashboard page
dashboardVars == <<dashboardData, dashboardLoading>>

\* ------------------------------------------------------------- calendar
\* lengths of the months of 2024
MonthLens == <<31, 29, 31, 30, 31, 30, 31, 31, 30, 31, 30, 31>>

RECURSIVE MonthStartDay(_)
\* day number of the first day of month m (0 = January 2024)
MonthStartDay(m) == IF m = 0 THEN 0 ELSE MonthStartDay(m - 1) + MonthLens[m]

\* getMonth() of a local day
MonthOfDay(d) ==
  CHOOSE m \in 0..11 : MonthStartDay(m) <= d /\ d < MonthStartDay(m) + MonthLens[m + 1]

\* getDate() of a local day
DomOfDay(d) == d - MonthStartDay(MonthOfDay(d)) + 1

\* local wall-clock fields of an instant
LocalDay(t) == (t + tz) \div TicksPerDay
LocalTod(t) == (t + tz) % TicksPerDay
\* the instant with the given local day and time of day
FromLocal(d, tod) == d * TicksPerDay + tod - tz

\* new Date("YYYY-MM-DD"): UTC midnight; Invalid Date when unparseable
NewDate(s) == IF s = BadDate THEN NaN ELSE s * TicksPerDay

\* ------------------------------------------------------ date-fns helpers
\* compareAsc(a, b): -1, 0 or 1
compareAsc(a, b) == IF a < b THEN -1 ELSE IF a > b THEN 1 ELSE 0

isAfter(a, b) == a > b
isBefore(a, b) == a < b

\* min([a, b])
minDate(a, b) == IF a < b THEN a ELSE b

\* Math.max
Max(a, b) == IF a > b THEN a ELSE b

Abs(x) == IF x < 0 THEN -x ELSE x

\* addDays / addWeeks: setDate(getDate() + 7 * amount), the time of day is kept
addWeeks(t, amount) == FromLocal(LocalDay(t) + 7 * amount, LocalTod(t))

\* startOfWeek without the weekStartsOn option: the Sunday on or before t
startOfWeek_Sunday(t) == FromLocal(LocalDay(t) - ((LocalDay(t) + 1) % 7), 0)

\* startOfWeek(t, {weekStartsOn: 1}): local midnight of the Monday on or before t
startOfWeek(t) == FromLocal(LocalDay(t) - (LocalDay(t) % 7), 0)

\* endOfWeek(t, {weekStartsOn: 1}): the last tick of the Sunday on or after t
endOfWeek(t) == FromLocal(LocalDay(t) - (LocalDay(t) % 7) + 6, TicksPerDay - 1)

\* startOfMonth / endOfMonth
startOfMonth(t) == FromLocal(MonthStartDay(MonthOfDay(LocalDay(t))), 0)
endOfMonth(t) ==
  LET m == MonthOfDay(LocalDay(t))
  IN  FromLocal(MonthStartDay(m) + MonthLens[m + 1] - 1, TicksPerDay - 1)

\* addMonths(t, amount): same day of the month, clamped to the length of the
\* target month; the time of day is kept
addMonths(t, amount) ==
  LET d   == LocalDay(t)
      m   == MonthOfDay(d) + amount
      dom == DomOfDay(d)
      len == MonthLens[m + 1]
  IN  FromLocal(MonthStartDay(m) + (IF dom >= len THEN len ELSE dom) - 1, LocalTod(t))

\* compareLocalAsc of differenceInDays: compares the local fields
compareLocalAsc(dl, todl, dr, todr) ==
  IF dl # dr THEN (IF dl < dr THEN -1 ELSE 1)
  ELSE IF todl # todr THEN (IF todl < todr THEN -1 ELSE 1) ELSE 0

\* differenceInDays(a, b): full days between b and a, truncated towards zero
differenceInDays(a, b) ==
  LET sign == compareLocalAsc(LocalDay(a), LocalTod(a), LocalDay(b), LocalTod(b))
      difference == Abs(LocalDay(a) - LocalDay(b))
      moved == LocalDay(a) - sign * difference
      isLastDayNotFull ==
        IF compareLocalAsc(moved, LocalTod(a), LocalDay(b), LocalTod(b)) = -sign
        THEN 1 ELSE 0
  IN  sign * (difference - isLastDayNotFull)

\* Math.trunc(x / 7)
TruncDiv7(x) == IF x >= 0 THEN x \div 7 ELSE -((-x) \div 7)

\* differenceInWeeks(a, b) = trunc(differenceInDays(a, b) / 7)
differenceInWeeks(a, b) == TruncDiv7(differenceInDays(a, b))

\* differenceInMonths(a, b): full months between b and a (date-fns 3.x)
differenceInMonths(a, b) ==
  LET sign == compareAsc(a, b)
      ma   == MonthOfDay(LocalDay(a))
      difference == Abs(ma - MonthOfDay(LocalDay(b)))
      \* end of February is lifted to the 30th, which rolls over into March
      febDay == IF ma = 1 /\ DomOfDay(LocalDay(a)) > 27
                THEN MonthStartDay(1) + 29 ELSE LocalDay(a)
      \* setMonth(getMonth() - sign * difference): the day of month overflows
      m2   == MonthOfDay(febDay) - sign * difference
      day2 == MonthStartDay(m2) + DomOfDay(febDay) - 1
      a2   == FromLocal(day2, LocalTod(a))
      notFull0 == compareAsc(a2, b) = -sign
      isLastDayOfMonth == DomOfDay(LocalDay(a)) = MonthLens[ma + 1]
      notFull == IF isLastDayOfMonth /\ difference = 1 /\ compareAsc(a, b) = 1
                 THEN FALSE ELSE notFull0
  IN  IF difference < 1 THEN 0
      ELSE sign * (difference - (IF notFull THEN 1 ELSE 0))

\* isWithinInterval(t, {start, end}); false for an Invalid Date
isWithinInterval(t, start, end) == t # NaN /\ t >= start /\ t <= end

\* format(t, 'yyyy-MM-dd'): the local calendar day
formatYMD(t) == LocalDay(t)

RECURSIVE DaysFrom(_, _)
\* eachDayOfInterval({start, end}): local midnights from start's day while <= end
DaysFrom(cur, end) ==
  IF cur > end THEN <<>>
  ELSE <<cur>> \o DaysFrom(cur + TicksPerDay, end)

eachDayOfInterval(start, end) == DaysFrom(FromLocal(LocalDay(start), 0), end)

\* ------------------------------------------------------------ rounding
\* Math.floor in place of toFixed, for n >= 0
RoundDiv_Floor(n, d) == n \div d

\* Number.prototype.toFixed for a quotient n / d with d > 0: nearest integer
\* of n / d, a tie going away from zero
RoundDiv(n, d) ==
  IF n >= 0 THEN (2 * n + d) \div (2 * d) ELSE -((2 * (-n) + d) \div (2 * d))

\* ------------------------------------------------- fetchReportStats parts
\* report.time_spent || 0
TimeOrZero(r) == IF r.time_spent = NullTime THEN 0 ELSE r.time_spent

RECURSIVE CountStatus(_, _)
\* reports.filter(r => r.status === s).length
CountStatus(rs, s) ==
  IF rs = <<>> THEN 0
  ELSE (IF Head(rs).status = s THEN 1 ELSE 0) + CountStatus(Tail(rs), s)

RECURSIVE SumTime(_)
\* reports.reduce((sum, report) => sum + report.time_spent / 60, 0), in minutes
SumTime(rs) ==
  IF rs = <<>> THEN 0
  ELSE (IF Head(rs).time_spent = NullTime THEN 0 ELSE Head(rs).time_spent) + SumTime(Tail(rs))

\* new Date(r.date).toISOString() throws RangeError on an Invalid Date
ToISOStringThrows(rs) == \E k \in 1..Len(rs) : NewDate(rs[k].date) = NaN

\* calculateDayStreak: number of distinct UTC days among the records
calculateDayStreak(rs) ==
  IF Len(rs) = 0 THEN 0 ELSE Cardinality({rs[k].date : k \in 1..Len(rs)})

RECURSIVE FindIndex(_, _, _)
\* daysData.findIndex(day => format(day.date) === format(reportDate)), 0 for -1
FindIndex(days, t, k) ==
  IF k > Len(days) THEN 0
  ELSE IF formatYMD(days[k].date) = formatYMD(t) THEN k
  ELSE FindIndex(days, t, k + 1)

\* the body of reports.forEach of the weekly loop for one report
WeekStep(acc, report, weekStart, adjustedWeekEnd) ==
  LET reportDate == NewDate(report.date)
  IN  IF isWithinInterval(reportDate, weekStart, adjustedWeekEnd)
      THEN LET dayIndex == FindIndex(acc.days, reportDate, 1)
               mins == TimeOrZero(report)
           IN  [days |-> IF dayIndex # 0
                         THEN [acc.days EXCEPT ![dayIndex].minutes = @ + mins]
                         ELSE acc.days,
                minutes |-> IF dayIndex # 0 THEN acc.minutes + mins ELSE acc.minutes,
                completed |-> acc.completed + (IF report.status = "completed" THEN 1 ELSE 0),
                total |-> acc.total + 1]
      ELSE acc

RECURSIVE WeekFold(_, _, _, _)
\* reports.forEach of the weekly loop
WeekFold(acc, rs, weekStart, adjustedWeekEnd) ==
  IF rs = <<>> THEN acc
  ELSE WeekFold(WeekStep(acc, Head(rs), weekStart, adjustedWeekEnd), Tail(rs),
                weekStart, adjustedWeekEnd)

\* one iteration of the weekly loop after the break test: the pushed bucket
WeekBucket(rs, weekStartDate, endDateToUse) ==
  LET weekStart == startOfWeek(weekStartDate)
      weekEnd == endOfWeek(weekStartDate)
      adjustedWeekEnd == IF isBefore(weekEnd, endDateToUse) THEN weekEnd ELSE endDateToUse
      weekDays == eachDayOfInterval(weekStart, adjustedWeekEnd)
      daysData == [k \in 1..Len(weekDays) |-> [date |-> weekDays[k], minutes |-> 0]]
      acc == WeekFold([days |-> daysData, minutes |-> 0, completed |-> 0, total |-> 0],
                      rs, weekStart, adjustedWeekEnd)
  IN  [weekStartDate |-> weekStartDate,
       weekStart |-> weekStart,
       weekEnd |-> adjustedWeekEnd,
       minutes |-> acc.minutes,
       totalHours |-> RoundDiv(acc.minutes, 6),
       completionRate |-> IF acc.total > 0 THEN RoundDiv(100 * acc.completed, acc.total) ELSE 0,
       days |-> acc.days]

\* numWeeks without the + 1
NumWeeks_NoPlusOne(start, endDateToUse) == Max(1, differenceInWeeks(endDateToUse, start))

\* numWeeks = Math.max(1, differenceInWeeks(endDateToUse, startDate) + 1)
NumWeeks(start, endDateToUse) == Max(1, differenceInWeeks(endDateToUse, start) + 1)

\* if (weekStartDate > endDateToUse) break
WeekBreak(weekStartDate, endDateToUse) == weekStartDate > endDateToUse

RECURSIVE WeeklyLoop(_, _, _, _, _)
\* for (let i = 0; i < numWeeks; i++) { ... weeks.push(...) }
WeeklyLoop(i, numWeeks, rs, start, endDateToUse) ==
  IF i >= numWeeks THEN <<>>
  ELSE IF WeekBreak(addWeeks(start, i), endDateToUse) THEN <<>>
  ELSE <<WeekBucket(rs, addWeeks(start, i), endDateToUse)>>
       \o WeeklyLoop(i + 1, numWeeks, rs, start, endDateToUse)

\* the weekly section: weeks
WeeklyData(rs, start, end, now) ==
  LET endDateToUse == minDate(now, end)
  IN  WeeklyLoop(0, NumWeeks(start, endDateToUse), rs, start, endDateToUse)

\* the body of reports.forEach of the monthly loop for one report
MonthStep(acc, report, monthStart, actualMonthEnd) ==
  IF isWithinInterval(NewDate(report.date), monthStart, actualMonthEnd)
  THEN [minutes |-> acc.minutes + TimeOrZero(report),
        completed |-> acc.completed + (IF report.status = "completed" THEN 1 ELSE 0),
        total |-> acc.total + 1]
  ELSE acc

RECURSIVE MonthFold(_, _, _, _)
\* reports.forEach of the monthly loop
MonthFold(acc, rs, monthStart, actualMonthEnd) ==
  IF rs = <<>> THEN acc
  ELSE MonthFold(MonthStep(acc, Head(rs), monthStart, actualMonthEnd), Tail(rs),
                 monthStart, actualMonthEnd)

\* one iteration of the monthly loop after the break test: the pushed bucket
MonthBucket(rs, monthDate, analysisEnd) ==
  LET monthStart == startOfMonth(monthDate)
      monthEnd == endOfMonth(monthDate)
      actualMonthEnd == IF isBefore(monthEnd, analysisEnd) THEN monthEnd ELSE analysisEnd
      acc == MonthFold([minutes |-> 0, completed |-> 0, total |-> 0],
                       rs, monthStart, actualMonthEnd)
  IN  [monthDate |-> monthDate,
       month |-> MonthOfDay(LocalDay(monthStart)),
       monthStart |-> monthStart,
       monthEnd |-> actualMonthEnd,
       minutes |-> acc.minutes,
       totalHours |-> RoundDiv(acc.minutes, 6),
       completionRate |-> IF acc.total > 0 THEN RoundDiv(100 * acc.completed, acc.total) ELSE 0]

\* numMonths = Math.max(1, differenceInMonths(analysisEndDate, startDate) + 1)
NumMonths(start, analysisEnd) == Max(1, differenceInMonths(analysisEnd, start) + 1)

\* if (isAfter(monthDate, analysisEndDate)) break
MonthBreak(monthDate, analysisEnd) == isAfter(monthDate, analysisEnd)

RECURSIVE MonthlyLoop(_, _, _, _, _)
\* for (let i = 0; i < numMonths; i++) { ... months.push(...) }
MonthlyLoop(i, numMonths, rs, start, analysisEnd) ==
  IF i >= numMonths THEN <<>>
  ELSE IF MonthBreak(addMonths(start, i), analysisEnd) THEN <<>>
  ELSE <<MonthBucket(rs, addMonths(start, i), analysisEnd)>>
       \o MonthlyLoop(i + 1, numMonths, rs, start, analysisEnd)

\* the monthly section: months
MonthlyData(rs, start, analysisEnd) ==
  MonthlyLoop(0, NumMonths(start, analysisEnd), rs, start, analysisEnd)

\* report[column], null when the row holds no such column
TextOf(report, column) == IF column \in DOMAIN report THEN report[column] ELSE NullText

RECURSIVE SplitFrom(_, _)
\* the pieces of text between commas, cur being the piece begun
SplitFrom(text, cur) ==
  IF text = <<>> THEN <<cur>>
  ELSE IF Head(text) = "," THEN <<cur>> \o SplitFrom(Tail(text), <<>>)
  ELSE SplitFrom(Tail(text), Append(cur, Head(text)))

\* String.prototype.split(',')
split(text) == SplitFrom(text, <<>>)

RECURSIVE trimStart(_)
trimStart(piece) ==
  IF piece # <<>> /\ Head(piece) = " " THEN trimStart(Tail(piece)) ELSE piece

RECURSIVE trimEnd(_)
trimEnd(piece) ==
  IF piece # <<>> /\ piece[Len(piece)] = " "
  THEN trimEnd(SubSeq(piece, 1, Len(piece) - 1)) ELSE piece

\* String.prototype.trim()
trim(piece) == trimEnd(trimStart(piece))

\* report.tags.split(',').map(t => t.trim())
TrimmedPieces(text) == [k \in 1..Len(split(text)) |-> trim(split(text)[k])]

\* obj[label] = (obj[label] || 0) + 1 on an object kept as the sequence of
\* its [label, count] properties in order of creation
Increment(obj, label) ==
  IF \E k \in 1..Len(obj) : obj[k].label = label
  THEN [k \in 1..Len(obj) |->
          IF obj[k].label = label THEN [obj[k] EXCEPT !.count = @ + 1] ELSE obj[k]]
  ELSE Append(obj, [label |-> label, count |-> 1])

RECURSIVE IncrementAll(_, _)
\* forEach(tag => ...) over the trimmed pieces of one field
IncrementAll(obj, labels) ==
  IF labels = <<>> THEN obj
  ELSE IncrementAll(Increment(obj, Head(labels)), Tail(labels))

RECURSIVE Tally(_, _, _)
\* reports.forEach(report => { if (report.tags) { ... } }); null and the
\* empty text are falsy
Tally(obj, rs, column) ==
  IF rs = <<>> THEN obj
  ELSE LET text == TextOf(Head(rs), column)
       IN  Tally(IF text = NullText \/ text = <<>> THEN obj
                 ELSE IncrementAll(obj, TrimmedPieces(text)),
                 Tail(rs), column)

\* a property name that is an array index: here a text of digits 1
IsIndexKey(label) == label # <<>> /\ \A i \in 1..Len(label) : label[i] = "1"

RECURSIVE IndexEntriesFrom(_, _)
\* the properties of obj with an index name of n or more digits, ascending
IndexEntriesFrom(obj, n) ==
  IF n > MaxLen THEN <<>>
  ELSE SelectSeq(obj, LAMBDA e : IsIndexKey(e.label) /\ Len(e.label) = n)
       \o IndexEntriesFrom(obj, n + 1)

\* Object.entries(obj): index names in ascending numeric order, then the
\* other names in order of creation
ObjectEntries(obj) ==
  IndexEntriesFrom(obj, 1) \o SelectSeq(obj, LAMBDA e : ~IsIndexKey(e.label))

\* .slice(0, 5) of the tools chart and .slice(0, 12) of the tag cloud
TopTools == 5
TopTags == 12

RECURSIVE InsertByCountDesc(_, _)
\* e put behind the entries of a descending list whose count is not smaller
InsertByCountDesc(sorted, e) ==
  IF sorted = <<>> THEN <<e>>
  ELSE IF Head(sorted).count < e.count THEN <<e>> \o sorted
  ELSE <<Head(sorted)>> \o InsertByCountDesc(Tail(sorted), e)

\* the entries left as Object.entries lists them
SortByCount_Unsorted(es) == es

RECURSIVE SortByCount(_)
\* .sort(([,a], [,b]) => b - a): descending by count, stable
SortByCount(es) ==
  IF es = <<>> THEN <<>>
  ELSE InsertByCountDesc(SortByCount(SubSeq(es, 1, Len(es) - 1)), es[Len(es)])

\* .slice(0, n)
slice(es, n) == SubSeq(es, 1, IF Len(es) < n THEN Len(es) ELSE n)

\* the data of the tools chart and the tags of the tag cloud, as rendered
ShownTools(st) == slice(SortByCount(ObjectEntries(st.tools)), TopTools)
ShownTags(st) == slice(SortByCount(ObjectEntries(st.tags)), TopTags)

\* useState<ReportStats> initial value
InitialStats ==
  [totalEntries |-> 0, completed |-> 0, pending |-> 0, inProgress |-> 0,
   totalHours |-> 0, dayStreak |-> 0, weeklyData |-> <<>>, monthlyData |-> <<>>,
   tags |-> <<>>, tools |-> <<>>]

\* newStats as passed to setStats
NewStats(rs, start, end, analysisEnd, now) ==
  [totalEntries |-> Len(rs),
   completed |-> CountStatus(rs, "completed"),
   pending |-> CountStatus(rs, "pending"),
   inProgress |-> CountStatus(rs, "in progress") + CountStatus(rs, "in_progress")
                  + CountStatus(rs, "inprogress"),
   totalHours |-> RoundDiv(SumTime(rs), 6),
   dayStreak |-> calculateDayStreak(rs),
   weeklyData |-> WeeklyData(rs, start, end, now),
   monthlyData |-> MonthlyData(rs, start, analysisEnd),
   tags |-> Tally(<<>>, rs, "tags"),
   tools |-> Tally(<<>>, rs, "skills_tools")]

\* ------------------------------------------- fetchDashboardData, parts
\* useState<DashboardData> initial value
InitialDashboardData ==
  [completedEntries |-> 0, pendingEntries |-> 0, totalMinutes |-> 0, dayStreak |-> 0,
   weeklyEntries |-> <<>>]

RECURSIVE DashboardWeekFold(_, _)
\* entriesData.forEach: the minutes of an entry go to the day of the
\* current week that has its local date
DashboardWeekFold(weeklyHours, rs) ==
  IF rs = <<>> THEN weeklyHours
  ELSE LET weekDayIndex == FindIndex(weeklyHours, NewDate(Head(rs).date), 1)
       IN  DashboardWeekFold(
             IF weekDayIndex # 0
             THEN [weeklyHours EXCEPT ![weekDayIndex].minutes = @ + TimeOrZero(Head(rs))]
             ELSE weeklyHours,
             Tail(rs))

\* the argument of setDashboardData, totalHours kept in minutes
NewDashboardData(rs, now) ==
  LET weekDays == eachDayOfInterval(startOfWeek(now), endOfWeek(now))
  IN  [completedEntries |-> CountStatus(rs, "completed"),
       pendingEntries |-> CountStatus(rs, "pending") + CountStatus(rs, "in progress"),
       totalMinutes |-> SumTime(rs),
       dayStreak |-> Cardinality({rs[k].date : k \in 1..Len(rs)}),
       weeklyEntries |-> DashboardWeekFold(
                           [k \in 1..Len(weekDays) |-> [date |-> weekDays[k], minutes |-> 0]],
                           rs)]

\* ------------------------------------------------- entry forms, parts
\* new Date().toISOString().split('T')[0]: the UTC calendar day of an instant
toISODate(t) == t \div TicksPerDay

\* useState initial value of newEntry, in Entries and in NewEntryForm
DefaultEntry(now) ==
  [title |-> "", date |-> toISODate(now), status |-> "pending", hours |-> 0, minutes |-> 0]

\* a date text in the display format 'MMM dd, yyyy' is DisplayBase plus the
\* day number it names; such a text holds no '-'
DisplayBase == 1000

\* format(dateObj, 'MMM dd, yyyy'): the local calendar day of the instant
formatDisplay(t) == DisplayBase + LocalDay(t)

\* new Date(text) of a text in display format: local midnight of the day
NewDateDisplay(s) == IF s = BadDate THEN NaN ELSE FromLocal(s - DisplayBase, 0)

\* JavaScript a % b for b > 0: the remainder has the sign of a
JsRem(a, b) == IF a >= 0 THEN a % b ELSE -((-a) % b)

RECURSIVE InsertByDateDesc(_, _)
\* r put behind the rows of a descending list that are not before it
InsertByDateDesc(sorted, r) ==
  IF sorted = <<>> THEN <<r>>
  ELSE IF Head(sorted).date < r.date THEN <<r>> \o sorted
  ELSE <<Head(sorted)>> \o InsertByDateDesc(Tail(sorted), r)

RECURSIVE OrderByDateDesc(_)
\* .order('date', { ascending: false }), rows of one date in table order
OrderByDateDesc(rs) ==
  IF rs = <<>> THEN <<>>
  ELSE InsertByDateDesc(OrderByDateDesc(SubSeq(rs, 1, Len(rs) - 1)), rs[Len(rs)])

\* fetchEntries, data.map: the date of a row in display format; an invalid
\* date becomes the text 'Invalid Date', which does not parse either
FormatEntry(entry) ==
  [entry EXCEPT !.date = IF NewDate(entry.date) = NaN THEN BadDate
                         ELSE formatDisplay(NewDate(entry.date))]

\* fetchEntries: formattedEntries of the rows of the table
FormattedEntries(rs) ==
  LET data == OrderByDateDesc(rs)
  IN  [k \in 1..Len(data) |-> FormatEntry(data[k])]

\* startEditing: the fields loaded into newEntry for an entry of the list
StartEditingFields(entry, now) ==
  LET dateObj == NewDateDisplay(entry.date)
      formattedDate == IF dateObj = NaN THEN toISODate(now) ELSE toISODate(dateObj)
      timeSpent == IF entry.time_spent = NullTime THEN 0 ELSE entry.time_spent
  IN  [title |-> entry.summary,
       date |-> formattedDate,
       status |-> entry.status,
       hours |-> timeSpent \div 60,
       minutes |-> JsRem(timeSpent, 60)]

\* time_spent: (newEntry.hours * 60) + newEntry.minutes
TimeSpentOf(e) == (e.hours * 60) + e.minutes

\* .update({...}).eq('id', id) of handleEditEntry on the table
UpdatedRows(rs, id, e) ==
  [k \in 1..Len(rs) |->
     IF rs[k].id = id
     THEN [rs[k] EXCEPT !.summary = e.title, !.date = e.date, !.status = e.status,
                        !.time_spent = TimeSpentOf(e)]
     ELSE rs[k]]

\* .insert({...}) of handleAddEntry on the table
InsertedRows(rs, e) ==
  Append(rs, [id |-> Len(rs) + 1, summary |-> e.title, date |-> e.date,
              status |-> e.status, time_spent |-> TimeSpentOf(e)])

\* the number inputs pass the browser's check of min="0" and max="59"
InputsValid(e) == e.hours >= 0 /\ e.minutes >= 0 /\ e.minutes <= 59

\* --------------------------------------------------------------- inputs
RECURSIVE SeqsUpTo(_, _)
\* the sequences over S of length at most n
SeqsUpTo(S, n) ==
  IF n = 0 THEN {<<>>}
  ELSE LET shorter == SeqsUpTo(S, n - 1)
       IN  shorter \cup {Append(q, x) : q \in shorter, x \in S}

\* rows of table reports as the entry forms write them, on the given dates,
\* and one row whose date does not parse
ReportRows(dates) ==
  [date : dates, time_spent : {30, 60}, status : {"completed", "pending"}]
    \cup {[date |-> BadDate, time_spent |-> 30, status |-> "completed"]}

\* useState initial value of settings: the dates of the internship, ""
\* being NullDate
InitialSettings == [startDate |-> NullDate, endDate |-> NullDate]

\* the state around a freshly mounted page: no dialog, no request in flight
PagesAtMount ==
  /\ loadedEntry = 0
  /\ entryToDelete = 0
  /\ deleteDialogOpen = FALSE
  /\ inflight = <<>>
  /\ saving = <<>>
  /\ formLoading = FALSE
  /\ settings = InitialSettings
  /\ settingsLoading = TRUE

\* a signed-in user whose session has been checked, at the home route
SignedIn ==
  /\ user = TRUE
  /\ authLoading = FALSE
  /\ path = "/"
  /\ visits = 0

\* the state of a freshly mounted Reports component over a given database
MountedPages(tzs, clocks, starts, ends, rows, maxRows) ==
  /\ tz \in tzs
  /\ clock \in clocks
  /\ ticks = 0
  /\ profile \in [start_date : starts, end_date : ends]
  /\ reports \in SeqsUpTo(rows, maxRows)
  /\ pc = "mount"
  /\ startDate = NaN /\ endDate = NaN /\ currentDate = NaN /\ analysisEndDate = NaN
  /\ today = NaN
  /\ fetched = <<>>
  /\ loading = TRUE
  /\ stats = InitialStats
  /\ toast = "none"
  /\ entries = <<>>
  /\ newEntry = DefaultEntry(clock)
  /\ editingEntry = 0
  /\ open = FALSE
  /\ dialogOpen = FALSE
  /\ formNewEntry = DefaultEntry(clock)
  /\ dateTouched = FALSE
  /\ writes = 0
  /\ dashboardData = InitialDashboardData
  /\ dashboardLoading = TRUE
  /\ PagesAtMount

\* the same for a signed-in user
Mounted(tzs, clocks, starts, ends, rows, maxRows) ==
  /\ MountedPages(tzs, clocks, starts, ends, rows, maxRows)
  /\ SignedIn

\* internships of a few weeks in January 2024: starting on a Monday (Jan 8)
\* or a Wednesday (Jan 10), ending before the start (Jan 9), on a Tuesday
\* (Jan 23) or open; the page is opened during or after the internship
Init ==
  Mounted({-1, 0, 1},
          {15 * TicksPerDay + 1, 22 * TicksPerDay - 1, 24 * TicksPerDay},
          {7, 9, NullDate}, {8, 22, NullDate},
          ReportRows({8, 22}), MaxReports)

\* internships of a few months in early 2024: starting Jan 15, Jan 31 or
\* Feb 15, ending Feb 10, Feb 29, Mar 16 or open
InitMonth ==
  Mounted({-1, 0, 1},
          {40 * TicksPerDay + 1, 61 * TicksPerDay - 1, 80 * TicksPerDay},
          {14, 30, 45}, {40, 59, 75, NullDate},
          ReportRows({20, 40}), MaxReports)

\* one more record than in Init, all of them in two weeks of one internship
\* (Jan 8 to Jan 23), so that a bucket holds up to MaxReports + 1 records
InitRate ==
  Mounted({-1, 0, 1},
          {15 * TicksPerDay + 1, 24 * TicksPerDay},
          {7}, {22, NullDate},
          [date : {10, 16, BadDate}, time_spent : {45}, status : {"completed", "pending"}],
          MaxReports + 1)

\* an internship from Jan 15 to Feb 10 or Mar 16 or open, with records dated
\* on the first day of a month (Feb 1) and inside a month (Feb 10)
InitMonthEdge ==
  Mounted({-1, 0, 1},
          {61 * TicksPerDay - 1, 80 * TicksPerDay},
          {14}, {40, 75, NullDate},
          ReportRows({31, 40}), MaxReports)

\* records whose time_spent is null, negative or positive, in an internship
\* from Jan 8 to Jan 23 or open
InitTime ==
  Mounted({-1, 0, 1},
          {24 * TicksPerDay},
          {7}, {22, NullDate},
          [date : {8, 16}, time_spent : {NullTime, -30, 60}, status : {"completed"}],
          MaxReports)

\* what parseInt(e.target.value) || 0 yields for the texts typed into the
\* hours and the minutes input
HoursInputs == {-1, 1}
MinutesInputs == {0, 30}

\* the day picked in the date input: Jan 10
DateInputs == {9}

\* the texts typed into the title input
TitleInputs == {"", "task"}

\* a row of table reports as the Entries page reads it
EntryRow(id, date) ==
  [id |-> id, summary |-> "task", date |-> date, status |-> "pending", time_spent |-> 90]

\* the Entries page at mount on Jan 25, in one of the time zones, over one
\* of the tables
EntriesMounted(tzs, tables) ==
  /\ tz \in tzs
  /\ clock = 24 * TicksPerDay + 1
  /\ ticks = 0
  /\ profile = [start_date |-> NullDate, end_date |-> NullDate]
  /\ reports \in tables
  /\ pc = "entriesMount"
  /\ startDate = NaN /\ endDate = NaN /\ currentDate = NaN /\ analysisEndDate = NaN
  /\ today = NaN
  /\ fetched = <<>>
  /\ loading = TRUE
  /\ stats = InitialStats
  /\ toast = "none"
  /\ entries = <<>>
  /\ newEntry = DefaultEntry(clock)
  /\ editingEntry = 0
  /\ open = FALSE
  /\ dialogOpen = FALSE
  /\ formNewEntry = DefaultEntry(clock)
  /\ dateTouched = FALSE
  /\ writes = 0
  /\ dashboardData = InitialDashboardData
  /\ dashboardLoading = TRUE
  /\ PagesAtMount
  /\ SignedIn

\* the Entries page in a time zone west of, at or east of UTC, over a table
\* of no row or of one row (Jan 9)
InitEntries == EntriesMounted({-1, 0, 1}, {<<>>, <<EntryRow(1, 8)>>})

\* the Entries page at UTC over a table of two rows (Jan 9, Jan 10) or of
\* three (and Jan 11)
InitEdit ==
  EntriesMounted({0}, {<<EntryRow(1, 8), EntryRow(2, 9)>>,
                       <<EntryRow(1, 8), EntryRow(2, 9), EntryRow(3, 10)>>})

\* the list of the Entries page over the same tables
InitList == InitEdit

\* the characters of the tags and skills_tools texts: a letter, a digit,
\* the comma and the blank
Alphabet == {"a", "1", ",", " "}

\* records of one day whose tags are any text of at most MaxLen characters
\* or null, with or without skills_tools
InitTags ==
  Mounted({0}, {24 * TicksPerDay}, {7}, {NullDate},
          [date : {8}, time_spent : {60}, status : {"completed"},
           tags : SeqsUpTo(Alphabet, MaxLen) \cup {NullText},
           skills_tools : {NullText, <<"a", ",", "a">>}],
          MaxReports)

\* one completed record of 60 minutes on every day from first to last
DailyRows(first, last) ==
  [k \in 1..(last - first + 1) |->
     [date |-> first + k - 1, time_spent |-> 60, status |-> "completed"]]

\* an internship that starts on Monday Jan 1 or Monday Jan 8 and ends on
\* Jan 20 or is open, looked at on Jan 13, on Jan 20 or on Jan 25, with one
\* record a day up to Jan 13, Jan 20 or Jan 24; west of UTC only Jan 8,
\* because the calendar of the model begins with 2024-01-01
InitDaily ==
  /\ tz \in {-1, 0, 1}
  /\ clock \in {12 * TicksPerDay + 1, 19 * TicksPerDay, 19 * TicksPerDay + 1,
                24 * TicksPerDay}
  /\ ticks = 0
  /\ profile \in [start_date : {0, 7}, end_date : {19, NullDate}]
  /\ tz < 0 => profile.start_date = 7
  /\ reports \in {DailyRows(profile.start_date, last) : last \in {12, 19, 23}}
  /\ pc = "mount"
  /\ startDate = NaN /\ endDate = NaN /\ currentDate = NaN /\ analysisEndDate = NaN
  /\ today = NaN
  /\ fetched = <<>>
  /\ loading = TRUE
  /\ stats = InitialStats
  /\ toast = "none"
  /\ entries = <<>>
  /\ newEntry = DefaultEntry(clock)
  /\ editingEntry = 0
  /\ open = FALSE
  /\ dialogOpen = FALSE
  /\ formNewEntry = DefaultEntry(clock)
  /\ dateTouched = FALSE
  /\ writes = 0
  /\ dashboardData = InitialDashboardData
  /\ dashboardLoading = TRUE
  /\ PagesAtMount
  /\ SignedIn

\* records whose status is of the enumeration completed, in_progress,
\* pending or one of the values the forms write
InitStatus ==
  Mounted({0}, {24 * TicksPerDay}, {7}, {NullDate},
          [date : {8, 16}, time_spent : {60},
           status : {"completed", "in_progress", "in progress", "pending"}],
          MaxReports)

RECURSIVE JoinComma(_)
\* the text that lists the labels, separated by commas
JoinComma(labels) ==
  IF labels = <<>> THEN <<>>
  ELSE IF Len(labels) = 1 THEN Head(labels)
  ELSE Head(labels) \o <<",">> \o JoinComma(Tail(labels))

\* fourteen labels
ManyLabels ==
  << <<"1">>, <<"1", "1">>, <<"a">>, <<"a", "a">>, <<"a", "1">>, <<"1", "a">>,
     <<"a", "a", "a">>, <<"a", "a", "1">>, <<"a", "1", "a">>, <<"a", "1", "1">>,
     <<"1", "a", "a">>, <<"1", "a", "1">>, <<"1", "1", "a">>, <<"a", "b">> >>

\* records that name up to fourteen tags and up to seven tools, the last
\* ones more often than the first ones
InitTop ==
  Mounted({0}, {24 * TicksPerDay}, {7}, {NullDate},
          [date : {8}, time_spent : {60}, status : {"completed"},
           tags : {NullText, JoinComma(ManyLabels), JoinComma(SubSeq(ManyLabels, 13, 14)),
                   JoinComma(SubSeq(ManyLabels, 2, 5))},
           skills_tools : {NullText, JoinComma(SubSeq(ManyLabels, 1, 7)),
                           JoinComma(SubSeq(ManyLabels, 6, 7)),
                           JoinComma(SubSeq(ManyLabels, 3, 3))}],
          MaxReports)

\* -------------------------------------------------------------- actions
\* time passes while the reports request is in flight (the time of the
\* profile request is part of the choice of the clock in Init)
Tick ==
  /\ ticks < MaxTicks
  /\ pc = "reports"
  /\ clock' = clock + 1
  /\ ticks' = ticks + 1
  /\ UNCHANGED <<entriesVars, dashboardVars, sessionVars>>
  /\ UNCHANGED <<tz, profile, reports, pc, startDate, endDate, currentDate,
                 analysisEndDate, today, fetched, loading, stats, toast>>

\* fetchReportStats up to the second await: the profile row arrives
FetchProfile ==
  /\ pc = "mount"
  /\ LET start == IF profile.start_date # NullDate THEN NewDate(profile.start_date) ELSE clock
         end == IF profile.end_date # NullDate THEN NewDate(profile.end_date) ELSE clock
     IN  /\ startDate' = start
         /\ currentDate' = clock
         /\ endDate' = end
         /\ analysisEndDate' = IF isAfter(end, clock) THEN clock ELSE end
  /\ pc' = "reports"
  /\ UNCHANGED <<entriesVars, dashboardVars, sessionVars>>
  /\ UNCHANGED <<tz, clock, ticks, profile, reports, today, fetched, loading, stats, toast>>

\* the catch block without its setLoading(false)
Catch_KeepsLoading(message) ==
  /\ toast' = message
  /\ loading' = loading
  /\ pc' = "failed"

\* the catch block: toast({description: error.message}) and setLoading(false)
Catch(message) ==
  /\ toast' = message
  /\ loading' = FALSE
  /\ pc' = "failed"

\* the profile query returns an error: throw profileError
ProfileError ==
  /\ pc = "mount"
  /\ Catch("profileError")
  /\ UNCHANGED <<entriesVars, dashboardVars, sessionVars>>
  /\ UNCHANGED <<tz, clock, ticks, profile, reports, startDate, endDate, currentDate,
                 analysisEndDate, today, fetched, stats>>

\* the reports query returns an error: throw error
ReportsError ==
  /\ pc = "reports"
  /\ Catch("error")
  /\ UNCHANGED <<entriesVars, dashboardVars, sessionVars>>
  /\ UNCHANGED <<tz, clock, ticks, profile, reports, startDate, endDate, currentDate,
                 analysisEndDate, today, fetched, stats>>

\* the rest of fetchReportStats: the rows arrive and the stats are computed
FetchReports ==
  /\ pc = "reports"
  /\ fetched' = reports
  /\ IF ToISOStringThrows(reports)
     THEN /\ Catch("Invalid time value")
          /\ UNCHANGED <<today, stats>>
     ELSE /\ today' = clock
          /\ stats' = NewStats(reports, startDate, endDate, analysisEndDate, clock)
          /\ loading' = FALSE
          /\ pc' = "done"
          /\ UNCHANGED toast
  /\ UNCHANGED <<entriesVars, dashboardVars, sessionVars>>
  /\ UNCHANGED <<tz, clock, ticks, profile, reports, startDate, endDate, currentDate,
                 analysisEndDate>>

Next == Tick \/ FetchProfile \/ ProfileError \/ ReportsError \/ FetchReports

Spec == Init /\ [][Next]_vars

SpecMonth == InitMonth /\ [][Next]_vars

SpecRate == InitRate /\ [][Next]_vars

SpecMonthEdge == InitMonthEdge /\ [][Next]_vars

SpecTime == InitTime /\ [][Next]_vars

SpecTags == InitTags /\ [][Next]_vars

SpecDaily == InitDaily /\ [][Next]_vars

SpecTop == InitTop /\ [][Next]_vars

\* ---------------------------------------------- actions of the Dashboard
\* fetchDashboardData: both queries succeed; an invalid date makes
\* toISOString throw, which the catch turns into a toast
FetchDashboard ==
  /\ dashboardLoading
  /\ IF ToISOStringThrows(reports)
     THEN /\ toast' = "Failed to load dashboard data"
          /\ UNCHANGED dashboardData
     ELSE /\ dashboardData' = NewDashboardData(reports, clock)
          /\ UNCHANGED toast
  /\ dashboardLoading' = FALSE
  /\ UNCHANGED <<tz, clock, ticks, profile, reports, pc, startDate, endDate, currentDate,
                 analysisEndDate, today, fetched, loading, stats, entriesVars,
                 sessionVars>>

\* fetchDashboardData: one of the queries returns an error
DashboardError ==
  /\ dashboardLoading
  /\ toast' = "Failed to load dashboard data"
  /\ dashboardLoading' = FALSE
  /\ UNCHANGED <<tz, clock, ticks, profile, reports, pc, startDate, endDate, currentDate,
                 analysisEndDate, today, fetched, loading, stats, entriesVars,
                 dashboardData, sessionVars>>

\* the Reports page and the Dashboard, each fetching once over one table
NextStatus == Next \/ FetchDashboard \/ DashboardError

SpecStatus == InitStatus /\ [][NextStatus]_vars

\* ------------------------------------------- actions of the entry forms
\* what the entry forms leave alone: the clock and the other pages
reportsVars == <<tz, clock, ticks, profile, startDate, endDate, currentDate,
                 analysisEndDate, today, fetched, stats, dashboardData,
                 dashboardLoading, sessionVars>>

\* no dialog covers the page
NoDialog == ~open /\ ~dialogOpen /\ ~deleteDialogOpen

\* fetchEntries at mount: the rows arrive
FetchEntries ==
  /\ pc = "entriesMount"
  /\ entries' = FormattedEntries(reports)
  /\ loading' = FALSE
  /\ pc' = "entries"
  /\ UNCHANGED <<reportsVars, loadedEntry, listVars, saving, formLoading, reports, toast, newEntry,
                 editingEntry, open, dialogOpen, formNewEntry, dateTouched, writes>>

\* fetchEntries at mount: the query returns an error
FetchEntriesError ==
  /\ pc = "entriesMount"
  /\ toast' = "Failed to load entries"
  /\ loading' = FALSE
  /\ pc' = "entries"
  /\ UNCHANGED <<reportsVars, loadedEntry, listVars, saving, formLoading, reports, entries, newEntry,
                 editingEntry, open, dialogOpen, formNewEntry, dateTouched, writes>>

\* the Edit button of an entry of the list: startEditing(entry)
StartEditing ==
  /\ pc = "entries" /\ NoDialog
  /\ \E k \in 1..Len(entries) :
       /\ newEntry' = StartEditingFields(entries[k], clock)
       /\ editingEntry' = entries[k].id
       /\ loadedEntry' = entries[k].id
  /\ open' = TRUE
  /\ dateTouched' = FALSE
  /\ UNCHANGED <<reportsVars, listVars, saving, formLoading, reports, pc, loading, toast,
                 entries, dialogOpen, formNewEntry, writes>>

\* onChange of an input of the edit dialog: title, date, hours or minutes
ChangeEditField ==
  /\ pc = "entries" /\ open /\ editingEntry # 0
  /\ \/ \E v \in TitleInputs :
          /\ newEntry' = [newEntry EXCEPT !.title = v]
          /\ UNCHANGED dateTouched
     \/ \E d \in DateInputs :
          /\ newEntry' = [newEntry EXCEPT !.date = d]
          /\ dateTouched' = TRUE
     \/ \E v \in HoursInputs :
          /\ newEntry' = [newEntry EXCEPT !.hours = v]
          /\ UNCHANGED dateTouched
     \/ \E v \in MinutesInputs :
          /\ newEntry' = [newEntry EXCEPT !.minutes = v]
          /\ UNCHANGED dateTouched
  /\ UNCHANGED <<reportsVars, loadedEntry, listVars, saving, formLoading, reports, pc, loading, toast,
                 entries, editingEntry, open, dialogOpen, formNewEntry, writes>>

\* the Cancel button of the edit dialog
CancelEdit ==
  /\ pc = "entries" /\ open /\ editingEntry # 0
  /\ open' = FALSE
  /\ editingEntry' = 0
  /\ newEntry' = DefaultEntry(clock)
  /\ UNCHANGED <<reportsVars, loadedEntry, listVars, saving, formLoading, reports, pc, loading, toast,
                 entries, dialogOpen, formNewEntry, dateTouched, writes>>

\* the entry dialog is dismissed: onOpenChange(false)
DismissEdit ==
  /\ pc = "entries" /\ open
  /\ open' = FALSE
  /\ UNCHANGED <<reportsVars, loadedEntry, listVars, saving, formLoading, reports, pc, loading, toast,
                 entries, newEntry, editingEntry, dialogOpen, formNewEntry, dateTouched,
                 writes>>

\* a request of a form on its way: the closure of the handler that awaits
\* the response (the id and the fields it read), whether the backend
\* accepted the write, and whether the form that sent it is still mounted
SaveRequest(op, id, fields, ok) ==
  [op |-> op, id |-> id, fields |-> fields, ok |-> ok, mounted |-> TRUE]

\* a sequence without its k-th element
Remove(q, k) == SubSeq(q, 1, k - 1) \o SubSeq(q, k + 1, Len(q))

\* the Update Entry button: handleEditEntry up to its await; the backend
\* applies the update
HandleEditEntry ==
  /\ pc = "entries" /\ open /\ editingEntry # 0
  /\ writes < MaxWrites
  /\ writes' = writes + 1
  /\ reports' = UpdatedRows(reports, editingEntry, newEntry)
  /\ saving' = Append(saving, SaveRequest("update", editingEntry, newEntry, TRUE))
  /\ UNCHANGED <<reportsVars, loadedEntry, listVars, formLoading, pc, loading, toast, entries, newEntry,
                 editingEntry, open, dialogOpen, formNewEntry, dateTouched>>

\* the Update Entry button: handleEditEntry up to its await; the backend
\* rejects the update
HandleEditEntryError ==
  /\ pc = "entries" /\ open /\ editingEntry # 0
  /\ writes < MaxWrites
  /\ writes' = writes + 1
  /\ saving' = Append(saving, SaveRequest("update", editingEntry, newEntry, FALSE))
  /\ UNCHANGED <<reportsVars, loadedEntry, listVars, formLoading, reports, pc, loading, toast, entries,
                 newEntry, editingEntry, open, dialogOpen, formNewEntry, dateTouched>>

\* handleEditEntry after its await without its setOpen(false): the entry is
\* forgotten while the dialog stays open
EditResponse_KeepsDialogOpen ==
  \E k \in 1..Len(saving) :
    /\ saving[k].op = "update"
    /\ saving' = Remove(saving, k)
    /\ IF saving[k].ok
       THEN /\ editingEntry' = 0
            /\ \/ /\ entries' = FormattedEntries(reports)
                  /\ toast' = "Entry updated"
               \/ /\ entries' = entries
                  /\ toast' = "Failed to load entries"
            /\ loading' = FALSE
            /\ UNCHANGED open
       ELSE /\ toast' = "Failed to update entry"
            /\ UNCHANGED <<editingEntry, open, entries, loading>>
    /\ UNCHANGED <<reportsVars, loadedEntry, listVars, formLoading, reports, pc, newEntry,
                   dialogOpen, formNewEntry, dateTouched, writes>>

\* handleEditEntry after its await: on success the dialog closes and
\* fetchEntries reloads the list or fails to; on an error the catch toasts
EditResponse ==
  \E k \in 1..Len(saving) :
    /\ saving[k].op = "update"
    /\ saving' = Remove(saving, k)
    /\ IF saving[k].ok
       THEN /\ editingEntry' = 0
            /\ open' = FALSE
            /\ \/ /\ entries' = FormattedEntries(reports)
                  /\ toast' = "Entry updated"
               \/ /\ entries' = entries
                  /\ toast' = "Failed to load entries"
            /\ loading' = FALSE
       ELSE /\ toast' = "Failed to update entry"
            /\ UNCHANGED <<editingEntry, open, entries, loading>>
    /\ UNCHANGED <<reportsVars, loadedEntry, listVars, formLoading, reports, pc, newEntry, dialogOpen,
                   formNewEntry, dateTouched, writes>>

\* the add button of the navigation bar opens its dialog, which mounts a
\* NewEntryForm
OpenAddDialog ==
  /\ pc = "entries" /\ NoDialog
  /\ dialogOpen' = TRUE
  /\ formNewEntry' = DefaultEntry(clock)
  /\ formLoading' = FALSE
  /\ UNCHANGED <<reportsVars, loadedEntry, listVars, saving, reports, pc, loading, toast, entries,
                 newEntry, editingEntry, open, dateTouched, writes>>

\* onChange of an input of NewEntryForm: title, date, hours or minutes
ChangeFormField ==
  /\ pc = "entries" /\ dialogOpen
  /\ \/ \E v \in TitleInputs : formNewEntry' = [formNewEntry EXCEPT !.title = v]
     \/ \E d \in DateInputs : formNewEntry' = [formNewEntry EXCEPT !.date = d]
     \/ \E v \in HoursInputs : formNewEntry' = [formNewEntry EXCEPT !.hours = v]
     \/ \E v \in MinutesInputs : formNewEntry' = [formNewEntry EXCEPT !.minutes = v]
  /\ UNCHANGED <<reportsVars, loadedEntry, listVars, saving, formLoading, reports, pc, loading, toast,
                 entries, newEntry, editingEntry, open, dialogOpen, dateTouched, writes>>

\* the requests in flight once the add dialog has closed: its form is gone
Unmounted(q) == [k \in 1..Len(q) |-> [q[k] EXCEPT !.mounted = FALSE]]

\* the Cancel button of the add dialog, or its dismissal; the form unmounts
CloseAddDialog ==
  /\ pc = "entries" /\ dialogOpen
  /\ dialogOpen' = FALSE
  /\ formNewEntry' = DefaultEntry(clock)
  /\ formLoading' = FALSE
  /\ saving' = Unmounted(saving)
  /\ UNCHANGED <<reportsVars, loadedEntry, listVars, reports, pc, loading, toast, entries, newEntry,
                 editingEntry, open, dateTouched, writes>>

\* the Save Entry button of the add dialog submits form new-entry-form: the
\* browser lets the submit through when the number inputs are valid, and
\* handleAddEntry runs up to its await; the backend applies the insert
SubmitForm ==
  /\ pc = "entries" /\ dialogOpen
  /\ InputsValid(formNewEntry)
  /\ IF formNewEntry.title = ""
     THEN /\ toast' = "Entry title required"
          /\ UNCHANGED <<reports, saving, formLoading, writes>>
     ELSE /\ writes < MaxWrites
          /\ writes' = writes + 1
          /\ formLoading' = TRUE
          /\ reports' = InsertedRows(reports, formNewEntry)
          /\ saving' = Append(saving, SaveRequest("insert", 0, formNewEntry, TRUE))
          /\ UNCHANGED toast
  /\ UNCHANGED <<reportsVars, loadedEntry, listVars, pc, loading, entries, newEntry, editingEntry, open,
                 dialogOpen, formNewEntry, dateTouched>>

\* the same submit when the backend rejects the insert
SubmitFormError ==
  /\ pc = "entries" /\ dialogOpen
  /\ InputsValid(formNewEntry)
  /\ formNewEntry.title # ""
  /\ writes < MaxWrites
  /\ writes' = writes + 1
  /\ formLoading' = TRUE
  /\ saving' = Append(saving, SaveRequest("insert", 0, formNewEntry, FALSE))
  /\ UNCHANGED <<reportsVars, loadedEntry, listVars, reports, pc, loading, toast, entries, newEntry,
                 editingEntry, open, dialogOpen, formNewEntry, dateTouched>>

\* handleAddEntry after its await: on success onSuccess closes the add
\* dialog, which unmounts the form; on an error the catch toasts; finally
\* setLoading(false), which a form that is gone ignores
AddResponse ==
  \E k \in 1..Len(saving) :
    /\ saving[k].op = "insert"
    /\ IF saving[k].ok
       THEN /\ toast' = "Entry added"
            /\ dialogOpen' = FALSE
            /\ formNewEntry' = DefaultEntry(clock)
            /\ formLoading' = FALSE
            /\ saving' = Unmounted(Remove(saving, k))
       ELSE /\ toast' = "Failed to add entry"
            /\ formLoading' = IF saving[k].mounted THEN FALSE ELSE formLoading
            /\ saving' = Remove(saving, k)
            /\ UNCHANGED <<dialogOpen, formNewEntry>>
    /\ UNCHANGED <<reportsVars, loadedEntry, listVars, reports, pc, loading, entries, newEntry,
                   editingEntry, open, dateTouched, writes>>

\* the Entries page with its edit dialog
NextEntries ==
  \/ FetchEntries \/ FetchEntriesError
  \/ StartEditing \/ ChangeEditField \/ CancelEdit \/ DismissEdit
  \/ HandleEditEntry \/ HandleEditEntryError \/ EditResponse

SpecEntries == InitEntries /\ [][NextEntries]_vars

\* the edit dialog over two or three entries, opened, closed and saved with
\* its inputs as startEditing loads them
NextEdit ==
  \/ FetchEntries \/ FetchEntriesError
  \/ StartEditing \/ CancelEdit \/ DismissEdit
  \/ HandleEditEntry \/ HandleEditEntryError \/ EditResponse

SpecEdit == InitEdit /\ [][NextEdit]_vars

\* the Entries page with the add dialog of the navigation bar
NextForm ==
  \/ FetchEntries \/ FetchEntriesError
  \/ OpenAddDialog \/ ChangeFormField \/ CloseAddDialog
  \/ SubmitForm \/ SubmitFormError \/ AddResponse

SpecForm == InitEntries /\ [][NextForm]_vars

\* ---------------------------------------- actions of the list of entries
\* what the list leaves alone: the dialogs of the forms
formVars == <<newEntry, editingEntry, open, dialogOpen, formNewEntry, dateTouched,
              loadedEntry, writes, saving, formLoading>>

\* the values of the SelectItems of the status Select of an entry
StatusInputs == {"completed", "in progress", "pending"}

\* String.toLowerCase on the status texts
toLowerCase(text) ==
  CASE text = "Completed" -> "completed"
    [] text = "In Progress" -> "in progress"
    [] text = "Pending" -> "pending"
    [] OTHER -> text

\* toggleEntryStatus, the switch: newStatus of a selected value
NewStatus(currentStatus) ==
  LET lower == toLowerCase(currentStatus)
  IN  IF lower = "completed" THEN "completed"
      ELSE IF lower = "in progress" THEN "in progress"
      ELSE IF lower = "pending" THEN "pending"
      ELSE "pending"

\* rows.map(entry => entry.id === id ? {...entry, status} : entry), and the
\* update of toggleEntryStatus on the table
WithStatus(rows, id, status) ==
  [k \in 1..Len(rows) |-> IF rows[k].id = id THEN [rows[k] EXCEPT !.status = status]
                          ELSE rows[k]]

\* rows.filter(entry => entry.id !== id), and the delete on the table
WithoutEntry(rows, id) == SelectSeq(rows, LAMBDA r : r.id # id)

\* an operation started on the list: the closure of the handler that awaits
\* the response (the id, the new status and the entries of the render that
\* called it), whether the backend accepted it, and whether its response
\* has arrived
ListRequest(op, id, status, ok) ==
  [op |-> op, id |-> id, status |-> status, ok |-> ok, entries |-> entries,
   done |-> FALSE]

\* the status Select of an entry: toggleEntryStatus up to its await; the
\* backend applies the update
ToggleEntryStatus ==
  /\ pc = "entries" /\ NoDialog
  /\ Len(inflight) < MaxRequests
  /\ \E k \in 1..Len(entries), value \in StatusInputs :
       /\ reports' = WithStatus(reports, entries[k].id, NewStatus(value))
       /\ inflight' = Append(inflight,
                             ListRequest("toggle", entries[k].id, NewStatus(value), TRUE))
  /\ UNCHANGED <<reportsVars, formVars, pc, loading, toast, entries, entryToDelete,
                 deleteDialogOpen>>

\* the status Select of an entry: toggleEntryStatus up to its await; the
\* backend rejects the update
ToggleEntryStatusError ==
  /\ pc = "entries" /\ NoDialog
  /\ Len(inflight) < MaxRequests
  /\ \E k \in 1..Len(entries), value \in StatusInputs :
       inflight' = Append(inflight,
                          ListRequest("toggle", entries[k].id, NewStatus(value), FALSE))
  /\ UNCHANGED <<reportsVars, formVars, reports, pc, loading, toast, entries,
                 entryToDelete, deleteDialogOpen>>

\* toggleEntryStatus after its await: setEntries over the entries of its
\* closure, or the toast of the catch
ToggleResponse ==
  \E k \in 1..Len(inflight) :
    /\ inflight[k].op = "toggle" /\ ~inflight[k].done
    /\ inflight' = [inflight EXCEPT ![k].done = TRUE]
    /\ IF inflight[k].ok
       THEN /\ entries' = WithStatus(inflight[k].entries, inflight[k].id,
                                     inflight[k].status)
            /\ toast' = "Status updated"
       ELSE /\ toast' = "Failed to update status"
            /\ UNCHANGED entries
    /\ UNCHANGED <<reportsVars, formVars, reports, pc, loading, entryToDelete,
                   deleteDialogOpen>>

\* the Delete button of an entry
ClickDelete ==
  /\ pc = "entries" /\ NoDialog
  /\ \E k \in 1..Len(entries) : entryToDelete' = entries[k].id
  /\ deleteDialogOpen' = TRUE
  /\ UNCHANGED <<reportsVars, formVars, reports, pc, loading, toast, entries, inflight>>

\* the Cancel button of the confirmation dialog, or its dismissal
CancelDelete ==
  /\ pc = "entries" /\ deleteDialogOpen
  /\ deleteDialogOpen' = FALSE
  /\ UNCHANGED <<reportsVars, formVars, reports, pc, loading, toast, entries,
                 entryToDelete, inflight>>

\* the Delete button of the confirmation dialog, enabled while loading is
\* false: handleDeleteEntry up to its await; the backend applies the delete
HandleDeleteEntry ==
  /\ pc = "entries" /\ deleteDialogOpen /\ ~loading
  /\ user /\ entryToDelete # 0
  /\ Len(inflight) < MaxRequests
  /\ loading' = TRUE
  /\ reports' = WithoutEntry(reports, entryToDelete)
  /\ inflight' = Append(inflight, ListRequest("delete", entryToDelete, "", TRUE))
  /\ UNCHANGED <<reportsVars, formVars, pc, toast, entries, entryToDelete,
                 deleteDialogOpen>>

\* the same click when the backend rejects the delete
HandleDeleteEntryError ==
  /\ pc = "entries" /\ deleteDialogOpen /\ ~loading
  /\ user /\ entryToDelete # 0
  /\ Len(inflight) < MaxRequests
  /\ loading' = TRUE
  /\ inflight' = Append(inflight, ListRequest("delete", entryToDelete, "", FALSE))
  /\ UNCHANGED <<reportsVars, formVars, reports, pc, toast, entries, entryToDelete,
                 deleteDialogOpen>>

\* handleDeleteEntry after its await: setEntries over the entries of its
\* closure and the dialog closes, or the toast of the catch; finally
\* setLoading(false)
DeleteResponse ==
  \E k \in 1..Len(inflight) :
    /\ inflight[k].op = "delete" /\ ~inflight[k].done
    /\ inflight' = [inflight EXCEPT ![k].done = TRUE]
    /\ IF inflight[k].ok
       THEN /\ entries' = WithoutEntry(inflight[k].entries, inflight[k].id)
            /\ deleteDialogOpen' = FALSE
            /\ entryToDelete' = 0
            /\ toast' = "Entry deleted"
       ELSE /\ toast' = "Failed to delete entry"
            /\ UNCHANGED <<entries, deleteDialogOpen, entryToDelete>>
    /\ loading' = FALSE
    /\ UNCHANGED <<reportsVars, formVars, reports, pc>>

\* the Entries page with the status Selects and the Delete buttons of its
\* list
NextList ==
  \/ FetchEntries \/ FetchEntriesError
  \/ ToggleEntryStatus \/ ToggleEntryStatusError \/ ToggleResponse
  \/ ClickDelete \/ CancelDelete
  \/ HandleDeleteEntry \/ HandleDeleteEntryError \/ DeleteResponse

SpecList == InitList /\ [][NextList]_vars

\* ------------------------------------------- the router and the session
\* the paths of the routes wrapped in ProtectedRoute
ProtectedPaths == {"/", "/entries", "/reports", "/settings"}

\* the locations visited: the routes of App and one path without a route
Paths == ProtectedPaths \cup {"/auth", "/x"}

\* ProtectedRoute without its loading check
ProtectedRoute_IgnoresLoading(u, isLoading) ==
  IF ~u THEN "Navigate /auth" ELSE "children"

\* what ProtectedRoute returns for the values of useAuth()
ProtectedRoute(u, isLoading) ==
  IF isLoading THEN "spinner"
  ELSE IF ~u THEN "Navigate /auth"
  ELSE "children"

\* what the Auth page returns for the user of useAuth()
Auth(u) == IF u THEN "Navigate /" ELSE "form"

\* the element the Routes of App render at the location
Rendered ==
  IF path = "/auth" THEN Auth(user)
  ELSE IF path \in ProtectedPaths THEN ProtectedRoute(user, authLoading)
  ELSE "NotFound"

\* the page of route p is on the screen
ShowsPage(p) == path = p /\ Rendered = "children"

\* what navigation and the session leave alone: the tables, the clock and
\* the dialogs
tableVars == <<tz, clock, ticks, profile, reports, toast, newEntry, editingEntry, open,
               dialogOpen, formNewEntry, dateTouched, loadedEntry, writes, listVars,
               saving, formLoading>>

\* the state of the page components after a change of what is rendered: the
\* page of route p, if it is shown, is freshly mounted
PageMounts(p) ==
  /\ pc' = IF p = "/reports" THEN "mount"
           ELSE IF p = "/entries" THEN "entriesMount"
           ELSE "none"
  /\ loading' = TRUE
  /\ stats' = InitialStats
  /\ startDate' = NaN /\ endDate' = NaN /\ currentDate' = NaN /\ analysisEndDate' = NaN
  /\ today' = NaN
  /\ fetched' = <<>>
  /\ entries' = <<>>
  /\ dashboardData' = InitialDashboardData
  /\ dashboardLoading' = TRUE
  /\ settings' = InitialSettings
  /\ settingsLoading' = TRUE

\* the session check of the AuthProvider finishes
SessionChecked ==
  /\ authLoading
  /\ authLoading' = FALSE
  /\ PageMounts(path)
  /\ UNCHANGED <<tableVars, user, path, visits>>

\* the AuthProvider reports a sign-in or a sign-out
AuthStateChange ==
  /\ visits < MaxVisits
  /\ visits' = visits + 1
  /\ user' = ~user
  /\ PageMounts(path)
  /\ UNCHANGED <<tableVars, authLoading, path>>

\* the user follows a link of the navigation bar or enters a location
GoTo ==
  /\ visits < MaxVisits
  /\ visits' = visits + 1
  /\ \E p \in Paths \ {path} :
       /\ path' = p
       /\ PageMounts(p)
  /\ UNCHANGED <<tableVars, user, authLoading>>

\* a rendered Navigate element replaces the location
Redirect ==
  /\ Rendered \in {"Navigate /auth", "Navigate /"}
  /\ path' = IF Rendered = "Navigate /auth" THEN "/auth" ELSE "/"
  /\ PageMounts(path')
  /\ UNCHANGED <<tableVars, user, authLoading, visits>>

\* ----------------------------------------- the fetches of the four pages
\* fetchDashboardData: no error and no rows, the early return inside try
DashboardNoData ==
  /\ dashboardLoading
  /\ dashboardLoading' = FALSE
  /\ UNCHANGED <<tz, clock, ticks, profile, reports, pc, startDate, endDate, currentDate,
                 analysisEndDate, today, fetched, loading, stats, toast, entriesVars,
                 dashboardData, sessionVars>>

\* fetchReportStats: no error and no rows, reports.reduce throws
ReportsNoData ==
  /\ pc = "reports"
  /\ Catch("TypeError")
  /\ UNCHANGED <<entriesVars, dashboardVars, sessionVars>>
  /\ UNCHANGED <<tz, clock, ticks, profile, reports, startDate, endDate, currentDate,
                 analysisEndDate, today, fetched, stats>>

\* fetchEntries at mount: no error and no rows, setEntries is skipped
FetchEntriesNoData ==
  /\ pc = "entriesMount"
  /\ loading' = FALSE
  /\ pc' = "entries"
  /\ UNCHANGED <<reportsVars, loadedEntry, listVars, saving, formLoading, reports, toast,
                 entries, newEntry, editingEntry, open, dialogOpen, formNewEntry,
                 dateTouched, writes>>

\* what getProfile of Settings leaves alone
settingsFrame == <<tz, clock, ticks, profile, reports, pc, startDate, endDate,
                   currentDate, analysisEndDate, today, fetched, loading, stats,
                   entriesVars, dashboardVars, user, authLoading, path, visits>>

\* Settings, getProfile: the profile row arrives
GetProfile ==
  /\ settingsLoading
  /\ settings' = [startDate |-> profile.start_date, endDate |-> profile.end_date]
  /\ settingsLoading' = FALSE
  /\ UNCHANGED <<settingsFrame, toast>>

\* Settings, getProfile: the query returns an error
GetProfileError ==
  /\ settingsLoading
  /\ toast' = "Failed to load profile"
  /\ settingsLoading' = FALSE
  /\ UNCHANGED <<settingsFrame, settings>>

\* Settings, getProfile: no error and no row
GetProfileNoData ==
  /\ settingsLoading
  /\ settingsLoading' = FALSE
  /\ UNCHANGED <<settingsFrame, settings, toast>>

\* a step of a page happens while the page is on the screen
OnPage(p, step) == ShowsPage(p) /\ step

\* the responses to the fetch of the page on the screen
Responses ==
  \/ OnPage("/", DashboardError)
  \/ OnPage("/", DashboardNoData)
  \/ OnPage("/", FetchDashboard)
  \/ OnPage("/reports", ProfileError)
  \/ OnPage("/reports", FetchProfile)
  \/ OnPage("/reports", ReportsError)
  \/ OnPage("/reports", ReportsNoData)
  \/ OnPage("/reports", FetchReports)
  \/ OnPage("/entries", FetchEntriesError)
  \/ OnPage("/entries", FetchEntriesNoData)
  \/ OnPage("/entries", FetchEntries)
  \/ OnPage("/settings", GetProfileError)
  \/ OnPage("/settings", GetProfileNoData)
  \/ OnPage("/settings", GetProfile)

\* the application opened at any location before the session is checked,
\* on Jan 25 at UTC, over a table of no row, of one row or of one row whose
\* date does not parse
InitApp ==
  /\ MountedPages({0}, {24 * TicksPerDay}, {7}, {NullDate},
                  {[date |-> d, time_spent |-> 60, status |-> "completed"] : d \in {8, BadDate}},
                  1)
  /\ user \in BOOLEAN
  /\ authLoading = TRUE
  /\ path \in Paths
  /\ visits = 0

NextApp ==
  \/ SessionChecked \/ AuthStateChange \/ GoTo \/ Redirect
  \/ OnPage("/reports", Tick)
  \/ Responses

SpecApp == InitApp /\ [][NextApp]_vars

\* every awaited query is answered
FairSpecApp == SpecApp /\ WF_vars(Responses) /\ WF_vars(Redirect)

\* ============================================================== claims
\* fetchReportStats has run to setStats
Done == pc = "done"

\* effectiveEnd = min(today, range.end) of the run that has finished
EffectiveEnd == minDate(today, endDate)

\* the rows whose date is a valid instant of [lo, hi]
RowsWithin(rs, lo, hi) ==
  SelectSeq(rs, LAMBDA r : r.date # BadDate /\ lo <= r.date * TicksPerDay
                           /\ r.date * TicksPerDay <= hi)

RECURSIVE MinutesOf(_)
\* sum of time_spent over rows
MinutesOf(rs) ==
  IF rs = <<>> THEN 0
  ELSE (IF Head(rs).time_spent = NullTime THEN 0 ELSE Head(rs).time_spent)
       + MinutesOf(Tail(rs))

RECURSIVE BucketMinutes(_)
\* sum of the totals of a bucket sequence
BucketMinutes(bs) == IF bs = <<>> THEN 0 ELSE Head(bs).minutes + BucketMinutes(Tail(bs))

\* the Monday (as a local day number) of the calendar week of local day d
WeekOfDay(d) == d - (d % 7)

\* the local calendar days of [lo, hi]
DaysOf(lo, hi) == LocalDay(lo)..LocalDay(hi)

\* C1: when start <= effectiveEnd, the weekly bucket totals add up to the
\* time_spent of exactly the records dated within [start, effectiveEnd]
C1_WeeklyTotalsCoverRange ==
  (Done /\ startDate <= EffectiveEnd)
    => BucketMinutes(stats.weeklyData)
         = MinutesOf(RowsWithin(fetched, startDate, EffectiveEnd))

\* C2: every Monday-to-Sunday week holding a day of [start, effectiveEnd] is
\* the week of exactly one weekly bucket
C2_EveryWeekHasOneBucket ==
  (Done /\ startDate <= EffectiveEnd)
    => \A d \in DaysOf(startDate, EffectiveEnd) :
         Cardinality({k \in 1..Len(stats.weeklyData) :
                        LocalDay(stats.weeklyData[k].weekStart) = WeekOfDay(d)}) = 1

\* C3: every calendar month holding a day of [start, effectiveEnd] is the
\* month of exactly one monthly bucket, the buckets are in ascending month
\* order, and there are floorMonthsBetween(start, effectiveEnd) + 1 of them
C3_EveryMonthHasOneBucket ==
  (Done /\ startDate <= analysisEndDate)
    => /\ \A d \in DaysOf(startDate, analysisEndDate) :
            Cardinality({k \in 1..Len(stats.monthlyData) :
                           stats.monthlyData[k].month = MonthOfDay(d)}) = 1
       /\ \A k \in 1..(Len(stats.monthlyData) - 1) :
            stats.monthlyData[k].month < stats.monthlyData[k + 1].month
       /\ Len(stats.monthlyData) = differenceInMonths(analysisEndDate, startDate) + 1

\* the rows with a parseable date
Parseable(rs) == SelectSeq(rs, LAMBDA r : r.date # BadDate)

\* C4: once the rows have arrived, a row with an unparseable date does not
\* make fetchReportStats fail: the stats are set, and the buckets are those
\* of the remaining rows
C4_UnparseableDateIsSkipped ==
  (\E k \in 1..Len(fetched) : fetched[k].date = BadDate)
    => /\ Done
       /\ toast = "none"
       /\ stats.weeklyData = WeeklyData(Parseable(fetched), startDate, endDate, today)
       /\ stats.monthlyData = MonthlyData(Parseable(fetched), startDate, analysisEndDate)

\* C5: when start is after the effective end, the weekly and the monthly
\* bucketing each return exactly one bucket, with zero total and zero rate
C5_DegenerateRangeOneBucket ==
  (Done /\ startDate > EffectiveEnd)
    => /\ Len(stats.weeklyData) = 1
       /\ Len(stats.monthlyData) = 1
       /\ stats.weeklyData[1].minutes = 0 /\ stats.weeklyData[1].completionRate = 0
       /\ stats.monthlyData[1].minutes = 0 /\ stats.monthlyData[1].completionRate = 0

\* C6: for an empty record set the weekly and the monthly bucketing return at
\* least one bucket each, all with total 0 and rate 0, and exactly one monthly
\* bucket when the range lies within one calendar month
C6_EmptyRecordSetZeroBuckets ==
  (Done /\ fetched = <<>>)
    => /\ Len(stats.weeklyData) >= 1
       /\ Len(stats.monthlyData) >= 1
       /\ \A k \in 1..Len(stats.weeklyData) :
            /\ stats.weeklyData[k].minutes = 0
            /\ stats.weeklyData[k].totalHours = 0
            /\ stats.weeklyData[k].completionRate = 0
       /\ \A k \in 1..Len(stats.monthlyData) :
            /\ stats.monthlyData[k].minutes = 0
            /\ stats.monthlyData[k].totalHours = 0
            /\ stats.monthlyData[k].completionRate = 0
       /\ MonthOfDay(LocalDay(startDate)) = MonthOfDay(LocalDay(endDate))
            => Len(stats.monthlyData) = 1

\* the rows that lie in a bucket: those dated within its boundaries
RowsOfBucket(rs, lo, hi) == RowsWithin(rs, lo, hi)

\* number of rows with status exactly 'completed'
CompletedOf(rs) == Len(SelectSeq(rs, LAMBDA r : r.status = "completed"))

\* q is 100 * c / n rounded to the nearest integer
NearestPercent(q, c, n) ==
  /\ q \in 0..100
  /\ IF 100 * c >= q * n THEN 2 * (100 * c - q * n) <= n
                         ELSE 2 * (q * n - 100 * c) <= n

\* the completion rate of a bucket [lo, hi] is right for the rows fetched
RateIsRight(rate, lo, hi) ==
  LET rows == RowsOfBucket(fetched, lo, hi)
  IN  /\ rate \in 0..100
      /\ Len(rows) = 0 => rate = 0
      /\ Len(rows) > 0 => NearestPercent(rate, CompletedOf(rows), Len(rows))

\* C7: in every weekly and monthly bucket completionRate is an integer of
\* 0..100, is 100 * completed / count of the bucket's records rounded to the
\* nearest integer, and is 0 for a bucket without records
C7_CompletionRate ==
  Done =>
    /\ \A k \in 1..Len(stats.weeklyData) :
         RateIsRight(stats.weeklyData[k].completionRate,
                     stats.weeklyData[k].weekStart, stats.weeklyData[k].weekEnd)
    /\ \A k \in 1..Len(stats.monthlyData) :
         RateIsRight(stats.monthlyData[k].completionRate,
                     stats.monthlyData[k].monthStart, stats.monthlyData[k].monthEnd)

\* witness of C7: a weekly bucket with three records, not all and not none of
\* them completed, so that the rate is a rounded value, next to an empty bucket
C7_Witness ==
  /\ Done
  /\ \E k \in 1..Len(stats.weeklyData) :
       LET rows == RowsOfBucket(fetched, stats.weeklyData[k].weekStart,
                                stats.weeklyData[k].weekEnd)
       IN  /\ Len(rows) = 3
           /\ CompletedOf(rows) = 2
           /\ stats.weeklyData[k].completionRate = 67
  /\ \E k \in 1..Len(stats.weeklyData) : stats.weeklyData[k].completionRate = 0
  /\ \E k \in 1..Len(stats.monthlyData) : stats.monthlyData[k].completionRate = 67

\* a week in ticks
WeekTicks == 7 * TicksPerDay

\* C8: weekly buckets are in ascending order, each starting exactly 7 days
\* after the one before; no calendar day is in two buckets; every bucket but
\* the last is a full Monday-to-Sunday week; only the last may be shorter,
\* clipped at effectiveEnd
C8_WeeksContiguous ==
  Done =>
    LET w == stats.weeklyData
    IN  /\ \A k \in 1..Len(w) :
             /\ LocalDay(w[k].weekStart) % 7 = 0
             /\ LocalTod(w[k].weekStart) = 0
             /\ w[k].weekEnd = minDate(w[k].weekStart + WeekTicks - 1, EffectiveEnd)
             /\ \A j \in 1..Len(w[k].days) :
                  w[k].days[j].date = w[k].weekStart + (j - 1) * TicksPerDay
             /\ Len(w[k].days) = LocalDay(w[k].weekEnd) - LocalDay(w[k].weekStart) + 1
        /\ \A k \in 1..(Len(w) - 1) :
             /\ w[k + 1].weekStart = w[k].weekStart + WeekTicks
             /\ w[k].weekEnd = w[k].weekStart + WeekTicks - 1
             /\ Len(w[k].days) = 7
             /\ w[k].weekEnd < w[k + 1].weekStart
        /\ \A k, l \in 1..Len(w) :
             k # l => \A i \in 1..Len(w[k].days), j \in 1..Len(w[l].days) :
                        w[k].days[i].date # w[l].days[j].date

\* witness of C8: three buckets, two full weeks and a shorter last one
C8_Witness ==
  /\ Done
  /\ Len(stats.weeklyData) = 3
  /\ Len(stats.weeklyData[1].days) = 7
  /\ Len(stats.weeklyData[2].days) = 7
  /\ Len(stats.weeklyData[3].days) < 7
  /\ stats.weeklyData[3].weekEnd = EffectiveEnd

\* C9: no weekly or monthly bucket counts a record dated after effectiveEnd =
\* min(today, range.end); every bucket ends at min(period end, effectiveEnd);
\* the weekly and the monthly bucketing use the same effectiveEnd
C9_SameEffectiveEnd ==
  Done =>
    /\ \A k \in 1..Len(stats.weeklyData) :
         /\ stats.weeklyData[k].weekEnd
              = minDate(endOfWeek(stats.weeklyData[k].weekStartDate), EffectiveEnd)
         /\ stats.weeklyData[k].minutes
              = MinutesOf(RowsWithin(fetched, stats.weeklyData[k].weekStart,
                                     minDate(stats.weeklyData[k].weekEnd, EffectiveEnd)))
    /\ \A k \in 1..Len(stats.monthlyData) :
         /\ stats.monthlyData[k].monthEnd
              = minDate(endOfMonth(stats.monthlyData[k].monthDate), EffectiveEnd)
         /\ stats.monthlyData[k].minutes
              = MinutesOf(RowsWithin(fetched, stats.monthlyData[k].monthStart,
                                     minDate(stats.monthlyData[k].monthEnd, EffectiveEnd)))
    /\ analysisEndDate = EffectiveEnd

\* floorWeeksBetween(lo, hi) for lo <= hi: whole weeks from lo to hi
FloorWeeksBetween(lo, hi) == (hi - lo) \div WeekTicks

RowsOfMonth(rs, m, end) ==
  SelectSeq(rs, LAMBDA r : r.date # BadDate /\ MonthOfDay(r.date) = m
                           /\ r.date * TicksPerDay <= end)

\* C11: every monthly bucket totals the time_spent of exactly the records
\* whose date is in the bucket's calendar month and not after the effective
\* end, its completion rate is that of the same records, and no record is
\* counted by two monthly buckets
C11_MonthlyBucketScope ==
  Done =>
    /\ \A k \in 1..Len(stats.monthlyData) :
         LET b == stats.monthlyData[k]
             rows == RowsOfMonth(fetched, b.month, analysisEndDate)
         IN  /\ b.minutes = MinutesOf(rows)
             /\ Len(rows) = 0 => b.completionRate = 0
             /\ Len(rows) > 0 =>
                  NearestPercent(b.completionRate, CompletedOf(rows), Len(rows))
    /\ \A j, k \in 1..Len(stats.monthlyData) :
         j # k => stats.monthlyData[j].month # stats.monthlyData[k].month

RECURSIVE SlotMinutes(_)
\* sum of the minutes of a sequence of daily slots
SlotMinutes(ds) == IF ds = <<>> THEN 0 ELSE Head(ds).minutes + SlotMinutes(Tail(ds))

\* the rows whose calendar date is day d and that are not after end
RowsOfDay(rs, d, end) ==
  SelectSeq(rs, LAMBDA r : r.date = d /\ r.date * TicksPerDay <= end)

\* C12: in every weekly bucket the daily breakdown has one slot per calendar
\* day from the bucket's Monday to its clipped end, in ascending order; a
\* slot holds the time_spent of the records with its calendar date; the
\* bucket total is the sum of the slots; a record counted by the bucket's
\* completion counters is in exactly one slot
C12_DailyBreakdown ==
  Done =>
    \A k \in 1..Len(stats.weeklyData) :
      LET b == stats.weeklyData[k]
          first == LocalDay(b.weekStart)
      IN  /\ first % 7 = 0
          /\ Len(b.days) = LocalDay(b.weekEnd) - first + 1
          /\ \A j \in 1..Len(b.days) :
               /\ LocalDay(b.days[j].date) = first + j - 1
               /\ b.days[j].minutes
                    = MinutesOf(RowsOfDay(fetched, first + j - 1, b.weekEnd))
          /\ b.minutes = SlotMinutes(b.days)
          /\ \A n \in 1..Len(fetched) :
               isWithinInterval(NewDate(fetched[n].date), b.weekStart, b.weekEnd)
                 => Cardinality({j \in 1..Len(b.days) :
                       LocalDay(b.days[j].date) = LocalDay(NewDate(fetched[n].date))}) = 1

\* the rows with every missing or negative time_spent replaced by 0
ZeroedRows(rs) ==
  [k \in 1..Len(rs) |->
     IF rs[k].time_spent = NullTime \/ rs[k].time_spent < 0
     THEN [rs[k] EXCEPT !.time_spent = 0] ELSE rs[k]]

\* C13: a record whose time_spent is missing or negative adds exactly 0 to
\* the overall total hours, to every weekly and monthly bucket total and to
\* every daily slot: the stats are those of the rows with such a time_spent
\* replaced by 0
C13_MissingOrNegativeCountsZero ==
  Done =>
    LET zeroed == NewStats(ZeroedRows(fetched), startDate, endDate, analysisEndDate, today)
    IN  /\ stats.totalHours = zeroed.totalHours
        /\ stats.weeklyData = zeroed.weeklyData
        /\ stats.monthlyData = zeroed.monthlyData

\* C14: every persisted record has time_spent >= 0, whatever was created
\* and edited through NewEntryForm and the edit dialog of Entries
C14_TimeSpentNeverNegative ==
  \A k \in 1..Len(reports) : reports[k].time_spent >= 0

RECURSIVE AllPieces(_, _)
\* the trimmed pieces of the comma-delimited column of all rows, in order
AllPieces(rs, column) ==
  IF rs = <<>> THEN <<>>
  ELSE (IF TextOf(Head(rs), column) = NullText THEN <<>>
        ELSE TrimmedPieces(TextOf(Head(rs), column)))
       \o AllPieces(Tail(rs), column)

\* how many of the pieces are label
Occurrences(pieces, label) == Cardinality({n \in 1..Len(pieces) : pieces[n] = label})

\* the position of the first piece that is label
FirstAt(pieces, label) ==
  CHOOSE n \in 1..Len(pieces) :
    pieces[n] = label /\ \A m \in 1..(n - 1) : pieces[m] # label

\* obj maps each non-empty label among the pieces to the number of pieces
\* equal to it, has no other key, and lists its keys by first occurrence
TallyIsRight(obj, pieces) ==
  LET es == ObjectEntries(obj)
  IN  /\ \A k \in 1..Len(es) :
           /\ es[k].label # <<>>
           /\ es[k].count = Occurrences(pieces, es[k].label)
           /\ es[k].count > 0
      /\ \A n \in 1..Len(pieces) :
           pieces[n] # <<>> => \E k \in 1..Len(es) : es[k].label = pieces[n]
      /\ \A j, k \in 1..Len(es) :
           j < k => FirstAt(pieces, es[j].label) < FirstAt(pieces, es[k].label)

\* C15: the tag tally and the tool tally map every label to the number of
\* trimmed comma-separated pieces equal to it, the empty label is never a
\* key, and the keys are in order of first occurrence
C15_TallyByLabel ==
  Done => /\ TallyIsRight(stats.tags, AllPieces(fetched, "tags"))
          /\ TallyIsRight(stats.tools, AllPieces(fetched, "skills_tools"))

\* the calendar day of effectiveEnd, as the records are dated
EffectiveEndDay == toISODate(EffectiveEnd)

\* the range starts on a Monday and the records are one completed record of
\* 60 minutes on every day of [start, effectiveEnd]
OneHourEveryDay ==
  /\ Done
  /\ profile.start_date # NullDate
  /\ profile.start_date % 7 = 0
  /\ profile.start_date <= EffectiveEndDay
  /\ fetched = DailyRows(profile.start_date, EffectiveEndDay)

\* the days of the k-th week of the range that are not after effectiveEnd
DaysOfWeekInRange(k) ==
  {d \in (profile.start_date + 7 * (k - 1))..(profile.start_date + 7 * k - 1) :
     d <= EffectiveEndDay}

\* C16: with one completed record of 60 minutes on every day of a range
\* that starts on a Monday, every full weekly bucket totals 420 minutes at
\* 100%, the last, partial, bucket totals 60 minutes for each day from its
\* Monday through effectiveEnd, and 2024-01-01 to 2024-01-20 gives 3 buckets
C16_OneHourEveryDay ==
  OneHourEveryDay =>
    /\ Len(stats.weeklyData) >= 1
    /\ \A k \in 1..Len(stats.weeklyData) :
         /\ stats.weeklyData[k].minutes = 60 * Cardinality(DaysOfWeekInRange(k))
         /\ stats.weeklyData[k].completionRate = 100
    /\ (profile.start_date = 0 /\ EffectiveEndDay = 19) => Len(stats.weeklyData) = 3

\* C18: for records whose status is completed, in_progress or pending, or
\* one of the values the forms write, every record is in exactly one of the
\* counters of Reports and in exactly one of the counters of Dashboard, so
\* that in each view the counters add up to the number of records
C18_StatusCountersPartition ==
  (Done /\ ~dashboardLoading /\ toast = "none")
    => /\ stats.completed + stats.pending + stats.inProgress = Len(fetched)
       /\ dashboardData.completedEntries + dashboardData.pendingEntries = Len(reports)

\* the count of every entry of shown is at least that of the next one, and
\* no entry of all that is not shown has a larger count than a shown one
TopByCount(shown, all) ==
  /\ \A k \in 1..(Len(shown) - 1) : shown[k].count >= shown[k + 1].count
  /\ \A k \in 1..Len(shown) : \E n \in 1..Len(all) : all[n] = shown[k]
  /\ \A n \in 1..Len(all) :
       (\A k \in 1..Len(shown) : shown[k].label # all[n].label)
         => \A k \in 1..Len(shown) : all[n].count <= shown[k].count

\* C19: the reporting view shows at most 12 tags and at most 5 tools, in
\* non-increasing order of count, and no label left out has a larger count
\* than a label shown
C19_TopTagsAndTools ==
  Done =>
    /\ Len(ShownTags(stats)) <= 12
    /\ Len(ShownTools(stats)) <= 5
    /\ TopByCount(ShownTags(stats), stats.tags)
    /\ TopByCount(ShownTools(stats), stats.tools)

\* witness of C19: more than 12 tags and more than 5 tools are tallied, with
\* different counts, and a label that comes late in the tally is shown first
C19_Witness ==
  /\ Done
  /\ Len(stats.tags) > 12 /\ Len(ShownTags(stats)) = 12
  /\ Len(stats.tools) > 5 /\ Len(ShownTools(stats)) = 5
  /\ ShownTags(stats)[1].count = 2 /\ ShownTags(stats)[12].count = 1
  /\ ShownTags(stats)[1].label = stats.tags[13].label
  /\ ShownTools(stats)[1].count = 2 /\ ShownTools(stats)[5].count = 1

\* C20: while an entry is open in the edit dialog and its date input has not
\* been touched, no step, and so no save, changes the stored date of that
\* entry, whatever the date and the time zone
C20_EditKeepsDate ==
  [][(editingEntry # 0 /\ ~dateTouched)
       => \A k \in 1..Len(reports) :
            reports[k].id = editingEntry
              => k <= Len(reports') /\ reports'[k].date = reports[k].date]_vars

\* the operations started on the list have all been answered, the backend
\* accepted each of them, and no two of them were on the same entry
AllSucceededOnDifferentEntries ==
  /\ \A k \in 1..Len(inflight) : inflight[k].done /\ inflight[k].ok
  /\ \A j, k \in 1..Len(inflight) : j # k => inflight[j].id # inflight[k].id

\* C21: when two operations of the list on different entries (status changes
\* or deletes) were in flight together and both succeeded, then after both
\* responses the local entries are the persisted rows, whatever the order of
\* the responses
C21_ConcurrentOperationsAgree ==
  (pc = "entries" /\ toast # "Failed to load entries" /\ Len(inflight) >= 2
     /\ AllSucceededOnDifferentEntries)
    => entries = FormattedEntries(reports)

\* C22: no insert and no update is issued with an empty title: no request of
\* a form carries one, and no persisted record has an empty summary
C22_NoWriteWithEmptyTitle ==
  /\ \A k \in 1..Len(saving) : saving[k].fields.title # ""
  /\ \A k \in 1..Len(reports) : reports[k].summary # ""

\* the saves in flight that the form now mounted has sent
SavesOfTheForm ==
  {k \in 1..Len(saving) : saving[k].op = "insert" /\ saving[k].mounted}

\* C23: while a save of NewEntryForm is in flight, the same form issues no
\* second insert: at most one save of the mounted form awaits its response
C23_OneSaveInFlight == Cardinality(SavesOfTheForm) <= 1

\* the k-th operation of the list is started by this step
Started(k) == k > Len(inflight)

\* the response of the k-th operation of the list arrives in this step
Answered(k) == k <= Len(inflight) /\ ~inflight[k].done /\ inflight'[k].done

\* C24: a delete is issued only from the open confirmation dialog and only
\* for entryToDelete; when it succeeds exactly that entry leaves the local
\* list, the dialog closes and entryToDelete becomes null; when it fails the
\* list, the dialog and entryToDelete stay; either way loading ends false
C24_DeleteOnlyTheChosenEntry ==
  [][\A k \in 1..Len(inflight') :
       inflight'[k].op = "delete"
         => /\ Started(k) => deleteDialogOpen /\ inflight'[k].id = entryToDelete
            /\ Answered(k)
                 => /\ ~loading'
                    /\ IF inflight[k].ok
                       THEN /\ entries' = WithoutEntry(entries, inflight[k].id)
                            /\ ~deleteDialogOpen'
                            /\ entryToDelete' = 0
                       ELSE UNCHANGED <<entries, deleteDialogOpen, entryToDelete>>]_vars

\* C25: toggleEntryStatus writes one of 'completed', 'in progress' and
\* 'pending' to the record with the given id; when the update succeeds only
\* the status of the local entry with that id changes, to the status
\* written; when it fails the local list stays
C25_ToggleChangesOnlyTheStatus ==
  [][\A k \in 1..Len(inflight') :
       inflight'[k].op = "toggle"
         => /\ (Started(k) /\ inflight'[k].ok)
                 => /\ inflight'[k].status \in StatusInputs
                    /\ reports' = WithStatus(reports, inflight'[k].id, inflight'[k].status)
            /\ Answered(k)
                 => IF inflight[k].ok
                    THEN entries' = WithStatus(entries, inflight[k].id, inflight[k].status)
                    ELSE UNCHANGED entries]_vars

\* C26: whatever startEditing, Cancel, dismissals and answered updates came
\* before, an open entry dialog has an editingEntry, and every update that
\* handleEditEntry issues is for the entry whose fields startEditing loaded
\* into the form last
C26_UpdateTargetsLoadedEntry ==
  [][/\ open' => editingEntry' # 0
     /\ \A k \in 1..Len(saving') :
          (k > Len(saving) /\ saving'[k].op = "update")
            => /\ saving'[k].id = loadedEntry
               /\ saving'[k].fields = newEntry]_vars

\* the edit dialog is open, an update of the loaded entry is on its way,
\* and so is one of the entry that was loaded before
C26_Witness ==
  /\ open /\ editingEntry # 0
  /\ \E k \in 1..Len(saving) : saving[k].op = "update" /\ saving[k].id = loadedEntry
  /\ \E k \in 1..Len(saving) : saving[k].op = "update" /\ saving[k].id # loadedEntry

\* C27: at a protected route the page content is rendered exactly when the
\* session check has finished with a user; when it has finished without a
\* user the route redirects to /auth; and the Auth page redirects to /
\* whenever there is a user
C27_ProtectedContentNeedsUser ==
  /\ path \in ProtectedPaths
       => /\ Rendered = "children" <=> (~authLoading /\ user)
          /\ (~authLoading /\ ~user) => Rendered = "Navigate /auth"
  /\ (path = "/auth" /\ user) => Rendered = "Navigate /"

\* the Entries page is shown to a signed-in user and has fetched its list
C27_Witness ==
  /\ ShowsPage("/entries") /\ pc = "entries"
  /\ user /\ ~authLoading

\* the loading flag of the page on the screen is set
Fetching ==
  \/ ShowsPage("/") /\ dashboardLoading
  \/ ShowsPage("/reports") /\ loading
  \/ ShowsPage("/entries") /\ loading
  \/ ShowsPage("/settings") /\ settingsLoading

\* C28: for a signed-in user the fetch of the page on the screen, Dashboard,
\* Reports, Entries or Settings, ends with loading false, when the queries
\* succeed and when one returns an error or no data
C28_FetchEndsLoading == Fetching ~> ~Fetching

\* the Reports page is on the screen after a query failed, and loading is
\* false
C28_Witness == ShowsPage("/reports") /\ pc = "failed" /\ ~loading

====
